---- MODULE Spec2Model ----
(***************************************************************************)
(* Model of estimate_plot_pdf_acf from random_signals/white_noise.ipynb.  *)
(*                                                                         *)
(* The function is modelled statement by statement.  Samples are small     *)
(* integers and every real number the function computes is kept as an      *)
(* exact fraction [num, den], so that the divisor of the autocorrelation   *)
(* and the bin edges of the histogram stay visible.  Rounding of the       *)
(* floating-point operations is not modelled.                              *)
(*                                                                         *)
(* The library calls are modelled by what they do for the arguments the    *)
(* function passes: np.correlate(mode='full'), Python slicing, np.arange,  *)
(* plt.hist(normed=True) (np.histogram), plt.stem, max and plt.axis.       *)
(*                                                                         *)
(* The audio cell of the notebook (np.int16(x*32768) written by            *)
(* wavfile.write) is modelled by the actions of SpecAudio.                 *)
(***************************************************************************)
EXTENDS Integers, Sequences, FiniteSets, TLC

\* ---------------------------------------------------------------- bounds
MaxLen == 4
MaxBins == 3
MaxLag == 5

\* sample values offered to the function
Vals == {-1, 0, 2}

\* parameters offered to the function (non-positive ones included)
BinArgs == -1 .. MaxBins
LagArgs == -1 .. MaxLag

\* the audio cell's uniform draws are modelled as the fractions m/UniformDen;
\* the draws within DrawEdge steps of 0, of 1/2 and of 1 are offered
UniformDen == 10000
DrawEdge == 40

\* the defaults of the parameters nbins and acf_range
DefaultNbins == 50
DefaultAcfRangeShort == 20
DefaultAcfRange == 30

\* ------------------------------------------------------------- fractions
Rat(n, d) == [num |-> n, den |-> d]

Abs(n) == IF n < 0 THEN -n ELSE n

RECURSIVE GCD(_, _)
GCD(a, b) == IF b = 0 THEN a ELSE GCD(b, a % b)

\* a fraction in lowest terms with a positive denominator
Reduce(r) ==
    LET g == GCD(Abs(r.num), Abs(r.den))
        s == IF r.den < 0 THEN -1 ELSE 1
    IN  Rat(s * (r.num \div g), s * (r.den \div g))

RatEq(a, b) == a.num * b.den = b.num * a.den
RatLess(a, b) == a.num * b.den < b.num * a.den
RatLeq(a, b) == a.num * b.den <= b.num * a.den
RatAdd(a, b) == Reduce(Rat(a.num * b.den + b.num * a.den, a.den * b.den))
RatSub(a, b) == Reduce(Rat(a.num * b.den - b.num * a.den, a.den * b.den))
RatMul(a, b) == Reduce(Rat(a.num * b.num, a.den * b.den))

\* sums of a sequence, adding the sums of its two halves
RECURSIVE RatSum(_)
RatSum(s) ==
    IF s = <<>> THEN Rat(0, 1)
    ELSE IF Len(s) = 1 THEN Reduce(s[1])
    ELSE LET h == Len(s) \div 2
         IN  RatAdd(RatSum(SubSeq(s, 1, h)), RatSum(SubSeq(s, h + 1, Len(s))))

RECURSIVE IntSum(_)
IntSum(s) ==
    IF s = <<>> THEN 0
    ELSE IF Len(s) = 1 THEN s[1]
    ELSE LET h == Len(s) \div 2
         IN  IntSum(SubSeq(s, 1, h)) + IntSum(SubSeq(s, h + 1, Len(s)))

\* ------------------------------------------------- sequences (0-based at)
At(s, i) == s[i + 1]

RECURSIVE SeqsUpTo(_)
SeqsUpTo(n) ==
    IF n = 0 THEN {<<>>}
    ELSE LET shorter == SeqsUpTo(n - 1)
         IN  shorter \cup {Append(s, v) : s \in {t \in shorter : Len(t) = n - 1}, v \in Vals}

\* the sequence [1, -1, 1, -1]
AlternatingSeq == <<1, -1, 1, -1>>

\* sequences about as long as the default lag range: lengths 29 .. 32, the
\* samples alternating between -1 and 2 or cycling through -1, 0, 2
LongLens == {29, 30, 31, 32}
LongInputs ==
    {[i \in 1 .. n |-> IF i % 2 = 1 THEN -1 ELSE 2] : n \in LongLens}
    \cup {[i \in 1 .. n |-> IF i % 3 = 1 THEN -1 ELSE IF i % 3 = 2 THEN 0 ELSE 2] : n \in LongLens}

\* the sample sequences offered to the function
Inputs == SeqsUpTo(MaxLen) \cup {AlternatingSeq} \cup LongInputs

\* ------------------------------------------------------ library functions
\* Correlate with the summation stopping one term early
CorrelateShortLoop(a, v) ==
    LET N == Len(a)
        term(n, k) == IF 0 <= n + k /\ n + k < N THEN At(a, n + k) * At(v, n) ELSE 0
    IN  [j \in 1 .. (2 * N - 1) |->
            IntSum([m \in 1 .. N - 1 |-> term(m - 1, (j - 1) - (N - 1))])]

\* np.correlate(a, v, mode='full') for two sequences of the same length
\* N >= 1: 2N-1 values, the value at position j (0-based) being the sum of
\* a[n+k] * v[n] for lag k = j - (N-1), taken over the overlapping indices.
Correlate(a, v) ==
    LET N == Len(a)
        term(n, k) == IF 0 <= n + k /\ n + k < N THEN At(a, n + k) * At(v, n) ELSE 0
    IN  [j \in 1 .. (2 * N - 1) |->
            IntSum([m \in 1 .. N |-> term(m - 1, (j - 1) - (N - 1))])]

\* ScaledCorrelate dividing by the overlap length N - |k| of each lag
ScaledCorrelateUnbiased(xs) ==
    LET c == Correlate(xs, xs)
    IN  [j \in 1 .. Len(c) |-> Rat(c[j], Len(xs) - Abs(j - Len(xs)))]

\* ScaledCorrelate dividing by the zero-lag value c[N-1] instead of len(x)
ScaledCorrelateNormalized(xs) ==
    LET c == Correlate(xs, xs)
    IN  [j \in 1 .. Len(c) |-> Rat(c[j], c[Len(xs)])]

\* 1/len(x) * np.correlate(x, x, mode='full')
ScaledCorrelate(xs) ==
    LET c == Correlate(xs, xs)
    IN  [j \in 1 .. Len(c) |-> Rat(c[j], Len(xs))]

\* SliceIndex clipping a negative index to 0 instead of counting from the end
SliceIndexClamp(i, L) ==
    IF i < 0 THEN 0
    ELSE (IF i > L THEN L ELSE i)

\* Python's s[start:stop]: a negative index counts from the end, and both
\* indices are clipped to 0 .. len(s).
SliceIndex(i, L) ==
    IF i < 0 THEN (IF i + L < 0 THEN 0 ELSE i + L)
    ELSE (IF i > L THEN L ELSE i)

PySlice(s, start, stop) ==
    SubSeq(s, SliceIndex(start, Len(s)) + 1, SliceIndex(stop, Len(s)))

\* Truncate with the window one position late: acf[N-range : N+range]
TruncateOffByOne(full, N, range) == PySlice(full, N - range, N + range)

\* Truncate with the window closed at both ends: acf[N-range-1 : N+range]
TruncateSymmetric(full, N, range) == PySlice(full, N - range - 1, N + range)

\* acf[len(x)-acf_range-1 : len(x)+acf_range-1]
Truncate(full, N, range) == PySlice(full, N - range - 1, N + range - 1)

\* np.arange(start, stop) for integers
Arange(start, stop) ==
    [i \in 1 .. (IF stop > start THEN stop - start ELSE 0) |-> start + i - 1]

\* builtin max over a non-empty sequence of samples / of fractions
SeqMin(s) == CHOOSE v \in {s[i] : i \in 1 .. Len(s)} : \A j \in 1 .. Len(s) : v <= s[j]
SeqMax(s) == CHOOSE v \in {s[i] : i \in 1 .. Len(s)} : \A j \in 1 .. Len(s) : s[j] <= v
RatMax(s) == s[CHOOSE i \in 1 .. Len(s) : \A j \in 1 .. Len(s) : RatLeq(s[j], s[i])]

\* np.histogram's range for the samples, in half units: (min, max), widened
\* to (min - 0.5, max + 0.5) when all samples are equal.
HistRange2(xs) ==
    LET mn == SeqMin(xs)
        mx == SeqMax(xs)
    IN  IF mn = mx THEN <<2 * mn - 1, 2 * mx + 1>> ELSE <<2 * mn, 2 * mx>>

\* BinIndex without the move of index bins into the last bin
BinIndexOpenLast(v, lo2, hi2, bins) == ((2 * v - lo2) * bins) \div (hi2 - lo2)

\* BinIndex with bins that are open on the left and closed on the right
BinIndexRightClosed(v, lo2, hi2, bins) ==
    LET num == (2 * v - lo2) * bins
        raw == (num + (hi2 - lo2) - 1) \div (hi2 - lo2) - 1
    IN  IF raw < 0 THEN 0 ELSE raw

\* np.histogram's bin of a sample: floor((v - mn) * bins / (mx - mn)), the
\* index bins (a sample equal to mx) being moved into the last bin.
BinIndex(v, lo2, hi2, bins) ==
    LET raw == ((2 * v - lo2) * bins) \div (hi2 - lo2)
    IN  IF raw = bins THEN bins - 1 ELSE raw

\* np.linspace(mn, mx, bins + 1)
BinEdges(lo2, hi2, bins) ==
    [i \in 1 .. bins + 1 |-> Reduce(Rat(lo2 * bins + (i - 1) * (hi2 - lo2), 2 * bins))]

\* np.bincount of the samples' bin indices
BinCounts(xs, lo2, hi2, bins) ==
    [i \in 1 .. bins |->
        Cardinality({j \in 1 .. Len(xs) : BinIndex(xs[j], lo2, hi2, bins) = i - 1})]

\* plt.hist(x, nbins, normed=True) for non-empty x and nbins >= 1:
\* counts n, densities n / diff(bins) / n.sum(), and the bin edges.
Histogram(xs, bins) ==
    LET r == HistRange2(xs)
        edges == BinEdges(r[1], r[2], bins)
        n == BinCounts(xs, r[1], r[2], bins)
        db == [i \in 1 .. bins |-> RatSub(edges[i + 1], edges[i])]
    IN  [n |-> n,
         density |-> [i \in 1 .. bins |-> Reduce(Rat(n[i] * db[i].den, db[i].num * IntSum(n)))],
         bins |-> edges]

NoHist == [n |-> <<>>, density |-> <<>>, bins |-> <<>>]

\* AxisLimits with the upper y-limit at 0.9*max(acf)
AxisLimitsTight(range, a) ==
    <<Rat(-range, 1), Rat(range, 1), Rat(0, 1), RatMul(Rat(9, 10), RatMax(a))>>

\* [-acf_range, acf_range, 0, 1.1*max(acf)] for a non-empty acf
AxisLimits(range, a) ==
    <<Rat(-range, 1), Rat(range, 1), Rat(0, 1), RatMul(Rat(11, 10), RatMax(a))>>

\* ------------------------------------------------------------ audio cell
\* the numerators m of the draws np.random.uniform offers, m/UniformDen in [0, 1)
Draws ==
    {m \in 0 .. (UniformDen - 1) :
        \/ m <= DrawEdge
        \/ m >= UniformDen - 1 - DrawEdge
        \/ Abs(2 * m - UniformDen) <= 2 * DrawEdge}

\* AudioSample without the shift by 1/2
AudioSampleUnshifted(m) == Rat(2 * m, 2 * UniformDen)

\* a sample of x = np.random.uniform(size=5*fs)-1/2 for the draw m/UniformDen
AudioSample(m) == Rat(2 * m - UniformDen, 2 * UniformDen)

\* x*32768
PcmScale == 32768
Scaled(r) == Rat(r.num * PcmScale, r.den)

\* the conversion of a float to an integer drops the fraction (towards zero)
TruncToZero(r) ==
    IF r.num >= 0 THEN r.num \div r.den ELSE -((-r.num) \div r.den)

\* np.int16(v): the truncated value when it fits 16 bits; outside the int16
\* range the conversion is undefined in C and yields the value wrapped
\* modulo 2^16 or the minimum, depending on the build
Int16Outcomes(r) ==
    LET t == TruncToZero(r)
    IN  IF -32768 <= t /\ t <= 32767 THEN {t}
        ELSE {((t + 32768) % 65536) - 32768, -32768}

\* ----------------------------------------------------------------- state
VARIABLES
    pc,         \* statement about to run: "idle", "L64", ..., "done", "raised"
    x,          \* the caller's sample sequence, bound to the parameter x
    defaulted,  \* TRUE when the caller supplied only the sequence
    nbins,      \* argument nbins
    acf_range,  \* argument acf_range
    acf,        \* local acf
    kappa,      \* local kappa
    figure,     \* TRUE once plt.figure has created the figure
    hist,       \* what plt.hist has drawn
    stem,       \* TRUE once plt.stem has drawn kappa against acf
    axis,       \* what plt.axis has set
    err,        \* the exception that ended the call, "none" otherwise
    noise,      \* audio cell: <<m>> for one sample's draw m/UniformDen of x
    wav         \* audio cell: <<p>> for that sample as written to the file

vars == <<pc, x, defaulted, nbins, acf_range, acf, kappa, figure, hist, stem, axis, err,
          noise, wav>>

Init ==
    /\ pc = "idle"
    /\ x = <<>>
    /\ defaulted = FALSE
    /\ nbins = DefaultNbins
    /\ acf_range = DefaultAcfRange
    /\ acf = <<>>
    /\ kappa = <<>>
    /\ figure = FALSE
    /\ hist = NoHist
    /\ stem = FALSE
    /\ axis = <<>>
    /\ err = "none"
    /\ noise = <<>>
    /\ wav = <<>>

\* the caller invokes estimate_plot_pdf_acf(x, nbins, acf_range)
Call ==
    /\ pc = "idle"
    /\ \E xs \in Inputs, b \in BinArgs, r \in LagArgs :
          /\ x' = xs
          /\ nbins' = b
          /\ acf_range' = r
    /\ defaulted' = FALSE
    /\ pc' = "L64"
    /\ acf' = <<>>
    /\ kappa' = <<>>
    /\ figure' = FALSE
    /\ hist' = NoHist
    /\ stem' = FALSE
    /\ axis' = <<>>
    /\ err' = "none"
    /\ UNCHANGED <<noise, wav>>

\* the caller invokes estimate_plot_pdf_acf(x): nbins and acf_range take
\* the defaults of the def line
CallDefault ==
    /\ pc = "idle"
    /\ \E xs \in Inputs : x' = xs
    /\ nbins' = DefaultNbins
    /\ acf_range' = DefaultAcfRange
    /\ defaulted' = TRUE
    /\ pc' = "L64"
    /\ acf' = <<>>
    /\ kappa' = <<>>
    /\ figure' = FALSE
    /\ hist' = NoHist
    /\ stem' = FALSE
    /\ axis' = <<>>
    /\ err' = "none"
    /\ UNCHANGED <<noise, wav>>

\* acf = 1/len(x) * np.correlate(x, x, mode='full')
\* 1/len(x) is evaluated first and raises ZeroDivisionError for an empty x.
CorrelateStep ==
    /\ pc = "L64"
    /\ Len(x) > 0
    /\ acf' = ScaledCorrelate(x)
    /\ pc' = "L65"
    /\ UNCHANGED <<noise, wav, x, defaulted, nbins, acf_range, kappa, figure, hist, stem, axis, err>>

CorrelateRaise ==
    /\ pc = "L64"
    /\ Len(x) = 0
    /\ err' = "ZeroDivisionError"
    /\ pc' = "raised"
    /\ UNCHANGED <<noise, wav, x, defaulted, nbins, acf_range, acf, kappa, figure, hist, stem, axis>>

\* acf = acf[len(x)-acf_range-1:len(x)+acf_range-1]
TruncateStep ==
    /\ pc = "L65"
    /\ acf' = Truncate(acf, Len(x), acf_range)
    /\ pc' = "L66"
    /\ UNCHANGED <<noise, wav, x, defaulted, nbins, acf_range, kappa, figure, hist, stem, axis, err>>

\* kappa = np.arange(-acf_range, acf_range)
ArangeStep ==
    /\ pc = "L66"
    /\ kappa' = Arange(-acf_range, acf_range)
    /\ pc' = "L69"
    /\ UNCHANGED <<noise, wav, x, defaulted, nbins, acf_range, acf, figure, hist, stem, axis, err>>

\* plt.figure(figsize = (10, 6))
FigureStep ==
    /\ pc = "L69"
    /\ figure' = TRUE
    /\ pc' = "L71"
    /\ UNCHANGED <<noise, wav, x, defaulted, nbins, acf_range, acf, kappa, hist, stem, axis, err>>

\* HistStep sorting the caller's sequence in place before binning it
HistStepInPlace ==
    /\ pc = "L71"
    /\ nbins >= 1
    /\ hist' = Histogram(x, nbins)
    /\ x' = SortSeq(x, LAMBDA a, b : a < b)
    /\ pc' = "L78"
    /\ UNCHANGED <<noise, wav, defaulted, nbins, acf_range, acf, kappa, figure, stem, axis, err>>

\* plt.hist(x, nbins, normed=True); np.histogram rejects nbins < 1
HistStep ==
    /\ pc = "L71"
    /\ nbins >= 1
    /\ hist' = Histogram(x, nbins)
    /\ pc' = "L78"
    /\ UNCHANGED <<noise, wav, x, defaulted, nbins, acf_range, acf, kappa, figure, stem, axis, err>>

HistRaise ==
    /\ pc = "L71"
    /\ nbins < 1
    /\ err' = "ValueError"
    /\ pc' = "raised"
    /\ UNCHANGED <<noise, wav, x, defaulted, nbins, acf_range, acf, kappa, figure, hist, stem, axis>>

\* plt.stem(kappa, acf)
StemStep ==
    /\ pc = "L78"
    /\ Len(kappa) = Len(acf)
    /\ stem' = TRUE
    /\ pc' = "L82"
    /\ UNCHANGED <<noise, wav, x, defaulted, nbins, acf_range, acf, kappa, figure, hist, axis, err>>

\* plotting sequences of different lengths is rejected; for two empty
\* sequences the baseline's np.amin(x) is rejected by some library versions
StemRaise ==
    /\ pc = "L78"
    /\ Len(kappa) # Len(acf) \/ Len(kappa) = 0
    /\ err' = "ValueError"
    /\ pc' = "raised"
    /\ UNCHANGED <<noise, wav, x, defaulted, nbins, acf_range, acf, kappa, figure, hist, stem, axis>>

\* plt.axis([-acf_range, acf_range, 0, 1.1*max(acf)])
AxisStep ==
    /\ pc = "L82"
    /\ Len(acf) > 0
    /\ axis' = AxisLimits(acf_range, acf)
    /\ pc' = "L83"
    /\ UNCHANGED <<noise, wav, x, defaulted, nbins, acf_range, acf, kappa, figure, hist, stem, err>>

\* max() of an empty sequence raises ValueError
AxisRaise ==
    /\ pc = "L82"
    /\ Len(acf) = 0
    /\ err' = "ValueError"
    /\ pc' = "raised"
    /\ UNCHANGED <<noise, wav, x, defaulted, nbins, acf_range, acf, kappa, figure, hist, stem, axis>>

\* plt.grid(), the last statement
GridStep ==
    /\ pc = "L83"
    /\ pc' = "done"
    /\ UNCHANGED <<noise, wav, x, defaulted, nbins, acf_range, acf, kappa, figure, hist, stem, axis, err>>

\* control is back with the caller: the call's parameters and locals are
\* gone (the function returns None), the caller still holds its sequence
\* and may call again
Return ==
    /\ pc \in {"done", "raised"}
    /\ pc' = "idle"
    /\ x' = x
    /\ defaulted' = FALSE
    /\ nbins' = DefaultNbins
    /\ acf_range' = DefaultAcfRange
    /\ acf' = <<>>
    /\ kappa' = <<>>
    /\ figure' = FALSE
    /\ hist' = NoHist
    /\ stem' = FALSE
    /\ axis' = <<>>
    /\ err' = "none"
    /\ UNCHANGED <<noise, wav>>

Next ==
    \/ Call
    \/ CallDefault
    \/ CorrelateStep
    \/ CorrelateRaise
    \/ TruncateStep
    \/ ArangeStep
    \/ FigureStep
    \/ HistStep
    \/ HistRaise
    \/ StemStep
    \/ StemRaise
    \/ AxisStep
    \/ AxisRaise
    \/ GridStep
    \/ Return

Spec == Init /\ [][Next]_vars

\* --------------------------------------------------- audio cell: actions
estimator == <<pc, x, defaulted, nbins, acf_range, acf, kappa, figure, hist, stem, axis, err>>

\* x = np.random.uniform(size=5*fs)-1/2: one sample of x is followed, every
\* sample being drawn and converted on its own
DrawNoise ==
    /\ \E m \in Draws : noise' = <<m>>
    /\ wav' = <<>>
    /\ UNCHANGED estimator

\* wavfile.write('uniform_white_noise.wav', fs, np.int16(x*32768))
WriteWav ==
    /\ noise # <<>>
    /\ wav = <<>>
    /\ \E p \in Int16Outcomes(Scaled(AudioSample(noise[1]))) : wav' = <<p>>
    /\ UNCHANGED <<noise, estimator>>

NextAudio ==
    \/ DrawNoise
    \/ WriteWav

SpecAudio == Init /\ [][NextAudio]_vars

TypeOK ==
    /\ pc \in {"idle", "L64", "L65", "L66", "L69", "L71", "L78", "L82", "L83", "done", "raised"}
    /\ err \in {"none", "ZeroDivisionError", "ValueError"}
    /\ figure \in BOOLEAN
    /\ stem \in BOOLEAN
    /\ defaulted \in BOOLEAN

\* ------------------------------------------------- positions in the call
\* the call has ended, normally or with an exception
Ended == pc \in {"done", "raised"}

\* line 65 has run: acf is the truncated autocorrelation
AfterTruncate ==
    \/ pc \in {"L66", "L69", "L71", "L78", "L82", "L83", "done"}
    \/ pc = "raised" /\ figure

\* line 66 has run: kappa is the lag axis
AfterArange ==
    \/ pc \in {"L69", "L71", "L78", "L82", "L83", "done"}
    \/ pc = "raised" /\ figure

\* line 71 has run without an exception: hist is the histogram
AfterHist ==
    \/ pc \in {"L78", "L82", "L83", "done"}
    \/ pc = "raised" /\ figure /\ nbins >= 1

\* the arguments of the call in progress
ValidLag == 1 <= acf_range /\ acf_range < Len(x)
NonDegenerate == Len(x) >= 1 /\ SeqMin(x) < SeqMax(x)
Constant == Len(x) >= 1 /\ SeqMin(x) = SeqMax(x)

\* sum of xs[i] * xs[i+k] over all i with 0 <= i < N and 0 <= i+k < N
RECURSIVE OverlapSumFrom(_, _, _)
OverlapSumFrom(xs, k, i) ==
    IF i >= Len(xs) THEN 0
    ELSE (IF 0 <= i + k /\ i + k < Len(xs) THEN At(xs, i) * At(xs, i + k) ELSE 0)
         + OverlapSumFrom(xs, k, i + 1)

OverlapSum(xs, k) == OverlapSumFrom(xs, k, 0)

\* ----------------------------------------------------------------- C1
\* C1: for 1 <= max_lag < N, the value returned for each lag k in
\* -max_lag .. max_lag-1 is (1/N) times the sum of x[i]*x[i+k] over the
\* overlapping indices: the divisor is N at every lag, not N-|k|.
C1_BiasedAcf ==
    (AfterTruncate /\ ValidLag) =>
        \A k \in (-acf_range) .. (acf_range - 1) :
            /\ k + acf_range + 1 \in DOMAIN acf
            /\ RatEq(acf[k + acf_range + 1], Rat(OverlapSum(x, k), Len(x)))

\* a finished valid call with a non-zero value at a non-zero lag
C1_Witness ==
    /\ pc = "done"
    /\ ValidLag
    /\ \E k \in (-acf_range) .. (acf_range - 1) : k # 0 /\ OverlapSum(x, k) # 0

\* ----------------------------------------------------------------- C2
\* C2: for 1 <= max_lag < N (max_lag = N-1 included) exactly 2*max_lag
\* values are returned, the i-th being the full correlation's value of lag
\* i - max_lag; the lag axis -max_lag .. max_lag-1 has the same length and
\* lag 0 sits at position max_lag.
C2_LagWindow ==
    (AfterArange /\ ValidLag) =>
        LET full == ScaledCorrelate(x)
        IN  /\ Len(acf) = 2 * acf_range
            /\ Len(kappa) = Len(acf)
            /\ \A i \in 0 .. (2 * acf_range - 1) :
                  /\ At(kappa, i) = i - acf_range
                  /\ At(acf, i) = At(full, (Len(x) - 1) + At(kappa, i))
            /\ At(kappa, acf_range) = 0

\* the boundary case max_lag = N-1, with values that differ between lags
C2_Witness ==
    /\ pc = "L69"
    /\ ValidLag
    /\ acf_range = Len(x) - 1
    /\ \E i \in 1 .. Len(acf) - 1 : ~RatEq(acf[i], acf[i + 1])

\* ----------------------------------------------------------------- C3
\* C3: the value returned at lag 0 is (1/N) times the sum of the squares of
\* the samples, the mean square of the sequence.
C3_ZeroLagMeanSquare ==
    (AfterTruncate /\ ValidLag) =>
        /\ acf_range + 1 \in DOMAIN acf
        /\ RatEq(At(acf, acf_range),
                 Rat(IntSum([i \in 1 .. Len(x) |-> x[i] * x[i]]), Len(x)))

\* a truncated autocorrelation of a sequence that is not all zero
C3_Witness ==
    /\ pc = "L66"
    /\ ValidLag
    /\ \E i \in 1 .. Len(x) : x[i] # 0

\* ----------------------------------------------------------------- C4
\* C4: a call with max_lag >= N fails with InvalidInputError and returns no
\* autocorrelation values.
C4_LagTooLargeRejected ==
    (Ended /\ Len(x) >= 1 /\ nbins >= 1 /\ acf_range >= Len(x)) =>
        (err = "InvalidInputError" /\ acf = <<>>)

\* ----------------------------------------------------------------- C5
\* C5: for a non-degenerate sequence and positive nbins the densities times
\* the bin widths sum to 1: each density is count / (N * bin width) and the
\* counts sum to N.
C5_DensityIntegratesToOne ==
    (AfterHist /\ NonDegenerate) =>
        LET width == [i \in 1 .. nbins |-> RatSub(hist.bins[i + 1], hist.bins[i])]
        IN  /\ Len(hist.density) = nbins
            /\ RatEq(RatSum([i \in 1 .. nbins |-> RatMul(hist.density[i], width[i])]),
                     Rat(1, 1))
            /\ IntSum(hist.n) = Len(x)
            /\ \A i \in 1 .. nbins :
                  RatEq(RatMul(hist.density[i], RatMul(Rat(Len(x), 1), width[i])),
                        Rat(hist.n[i], 1))

\* a histogram with several bins, one of them empty, of a sequence in which
\* the largest sample occurs more than once
C5_Witness ==
    /\ pc = "L78"
    /\ NonDegenerate
    /\ nbins >= 2
    /\ \E i \in 1 .. nbins : hist.n[i] = 0
    /\ Cardinality({j \in 1 .. Len(x) : x[j] = SeqMax(x)}) >= 2

\* ----------------------------------------------------------------- C6
\* C6: for a non-degenerate sequence and positive nbins there are exactly
\* nbins contiguous bins of width (max-min)/nbins from min to max; a sample
\* is counted in the bin [left, right) that holds it, so a sample on an
\* interior edge goes to the bin on its right, and the last bin also counts
\* the samples equal to max.
C6_HalfOpenBins ==
    (AfterHist /\ NonDegenerate) =>
        LET mn == SeqMin(x)
            mx == SeqMax(x)
            inBin(v, i) ==
                /\ RatLeq(hist.bins[i], Rat(v, 1))
                /\ \/ RatLess(Rat(v, 1), hist.bins[i + 1])
                   \/ i = nbins /\ RatEq(Rat(v, 1), hist.bins[i + 1])
        IN  /\ Len(hist.n) = nbins
            /\ Len(hist.bins) = nbins + 1
            /\ RatEq(hist.bins[1], Rat(mn, 1))
            /\ RatEq(hist.bins[nbins + 1], Rat(mx, 1))
            /\ \A i \in 1 .. nbins :
                  /\ RatEq(RatSub(hist.bins[i + 1], hist.bins[i]), Rat(mx - mn, nbins))
                  /\ hist.n[i] = Cardinality({j \in 1 .. Len(x) : inBin(x[j], i)})
            /\ \A j \in 1 .. Len(x) :
                  Cardinality({i \in 1 .. nbins : inBin(x[j], i)}) = 1

\* a histogram of a sequence with a sample on an interior bin edge
C6_Witness ==
    /\ pc = "L82"
    /\ NonDegenerate
    /\ \E i \in 2 .. nbins : \E j \in 1 .. Len(x) : RatEq(hist.bins[i], Rat(x[j], 1))

\* ----------------------------------------------------------------- C7
\* C7: a call with a sequence whose samples are all identical raises
\* InvalidInputError and returns no histogram.
C7_ConstantRejected ==
    (AfterHist /\ Constant /\ ValidLag) =>
        (err = "InvalidInputError" /\ hist = NoHist)

\* ----------------------------------------------------------------- C8
\* C8: a call with an empty sample sequence fails with InvalidInputError.
C8_EmptyRejected ==
    (Ended /\ Len(x) = 0) => err = "InvalidInputError"

\* ----------------------------------------------------------------- C9
\* C9: a call with nbins <= 0 or max_lag <= 0 fails with InvalidInputError
\* and never produces an empty or malformed histogram or lag window.
C9_NonPositiveRejected ==
    (Ended /\ Len(x) >= 1 /\ (nbins <= 0 \/ acf_range <= 0)) =>
        /\ err = "InvalidInputError"
        /\ hist = NoHist
        /\ stem = FALSE

\* ---------------------------------------------------------------- C10
\* C10: validation precedes all work: in a call with an invalid input (empty
\* sequence, non-positive nbins or max_lag, max_lag >= N, zero-width range)
\* nothing is computed and no figure is created before the failure.
InvalidInput ==
    \/ Len(x) = 0
    \/ nbins <= 0
    \/ acf_range <= 0
    \/ acf_range >= Len(x)
    \/ Constant

C10_ValidationFirst ==
    (pc # "idle" /\ InvalidInput) =>
        /\ acf = <<>>
        /\ kappa = <<>>
        /\ figure = FALSE
        /\ hist = NoHist
        /\ stem = FALSE
        /\ axis = <<>>
        /\ pc \in {"L64", "raised"}

\* ---------------------------------------------------------------- C11
\* C11: for N >= 2 and 1 <= max_lag < N, the autocorrelation of a sequence
\* of N zeros consists of 2*max_lag values that are all zero.
AllZero == \A i \in 1 .. Len(x) : x[i] = 0

C11_ZerosGiveZeros ==
    (AfterTruncate /\ ValidLag /\ AllZero) =>
        /\ Len(acf) = 2 * acf_range
        /\ \A i \in 1 .. Len(acf) : acf[i].num = 0 /\ acf[i].den # 0

\* the truncated autocorrelation of at least three zeros
C11_Witness ==
    /\ pc = "L66"
    /\ ValidLag
    /\ AllZero
    /\ Len(x) >= 3
    /\ acf_range >= 2

\* ---------------------------------------------------------------- C12
\* C12: for the sequence [1, -1, 1, -1] and max_lag = 2 exactly four values
\* are returned, for the lags -2, -1, 0, 1 in this order, each the full
\* linear correlation at that lag divided by 4: 2/4, -3/4, 4/4, -3/4.
C12_AlternatingScenario ==
    (AfterArange /\ x = AlternatingSeq /\ acf_range = 2) =>
        /\ kappa = <<-2, -1, 0, 1>>
        /\ Len(acf) = 4
        /\ RatEq(acf[1], Rat(2, 4))
        /\ RatEq(acf[2], Rat(-3, 4))
        /\ RatEq(acf[3], Rat(4, 4))
        /\ RatEq(acf[4], Rat(-3, 4))
        /\ \A i \in 1 .. 4 : RatEq(acf[i], Rat(OverlapSum(x, kappa[i]), 4))

\* the scenario's call has finished
C12_Witness ==
    /\ pc = "done"
    /\ x = AlternatingSeq
    /\ acf_range = 2
    /\ err = "none"

\* ---------------------------------------------------------------- C13
\* C13: the estimate is symmetric in the lag: for 1 <= k <= max_lag-1 the
\* value at lag k equals the value at lag -k (lag -max_lag has no partner).
C13_Symmetric ==
    (AfterTruncate /\ ValidLag) =>
        \A k \in 1 .. (acf_range - 1) :
            /\ acf_range + 1 + k \in DOMAIN acf
            /\ RatEq(At(acf, acf_range + k), At(acf, acf_range - k))

\* a window with paired lags whose values are not all equal
C13_Witness ==
    /\ pc = "L71"
    /\ ValidLag
    /\ acf_range >= 3
    /\ ~RatEq(At(acf, acf_range + 1), At(acf, acf_range + 2))
    /\ ~RatEq(At(acf, acf_range + 1), Rat(0, 1))

\* ---------------------------------------------------------------- C14
\* C14: the zero-lag value has the largest magnitude: |acf[k]| <= acf[0]
\* for every returned lag k.
C14_ZeroLagIsMaximum ==
    (AfterTruncate /\ ValidLag) =>
        \A i \in 1 .. Len(acf) :
            /\ RatLeq(acf[i], At(acf, acf_range))
            /\ RatLeq(Rat(-acf[i].num, acf[i].den), At(acf, acf_range))

\* a window holding a negative value and a positive value besides lag 0
C14_Witness ==
    /\ pc = "L78"
    /\ ValidLag
    /\ \E i \in 1 .. Len(acf) : acf[i].num < 0
    /\ \E i \in 1 .. Len(acf) : i # acf_range + 1 /\ acf[i].num > 0

\* ---------------------------------------------------------------- C15
\* C15: the estimator never modifies its input: no step of a call,
\* successful or failing, and not the return to the caller, changes the
\* length, the values or the order of the caller's sample sequence.
C15_InputUnchanged == [][pc # "idle" => x' = x]_vars

\* a call on an unsorted sequence that has failed in plt.stem, after the
\* histogram was drawn
C15_Witness ==
    /\ pc = "raised"
    /\ figure
    /\ stem = FALSE
    /\ nbins >= 1
    /\ Len(x) >= 2
    /\ \E i \in 1 .. Len(x) - 1 : x[i] > x[i + 1]

\* ---------------------------------------------------------------- C17
\* C17: a call that supplies only the sequence runs with nbins = 50 and
\* max_lag = 30 and produces what the call with these two values produces;
\* it completes without an exception only for sequences of length N > 30.
C17_Defaults ==
    (defaulted /\ pc # "idle") =>
        /\ nbins = 50
        /\ acf_range = 30
        /\ AfterTruncate => acf = Truncate(ScaledCorrelate(x), Len(x), 30)
        /\ AfterArange => kappa = Arange(-30, 30)
        /\ AfterHist => hist = Histogram(x, 50)
        /\ Ended => (err = "none" <=> Len(x) > 30)
        /\ pc = "done" => (Len(acf) = 60 /\ Len(hist.n) = 50)

\* a finished default call on the shortest sequence it is valid for
C17_Witness ==
    /\ defaulted
    /\ pc = "done"
    /\ Len(x) = 31
    /\ err = "none"

\* ---------------------------------------------------------------- C18
\* C18: for N >= 1 and acf_range >= 1 the truncated acf is as long as the
\* lag axis kappa exactly when acf_range <= N-1.  For acf_range >= N the
\* negative start index wraps to the end of the full correlation: the slice
\* holds only its last min(acf_range-N+1, 2N-1) values, is strictly shorter
\* than kappa, and each value belongs to a larger lag than kappa gives it.
C18_WrappedSlice ==
    (AfterArange /\ Len(x) >= 1 /\ acf_range >= 1) =>
        LET N == Len(x)
            L == 2 * N - 1
            full == ScaledCorrelate(x)
            short == IF acf_range - N + 1 < L THEN acf_range - N + 1 ELSE L
        IN  /\ Len(kappa) = 2 * acf_range
            /\ Len(acf) = Len(kappa) <=> acf_range <= N - 1
            /\ acf_range >= N =>
                  /\ Len(acf) = short
                  /\ Len(acf) < Len(kappa)
                  /\ acf = SubSeq(full, L - short + 1, L)
                  /\ \A i \in 0 .. (short - 1) :
                        (L - short + i) - (N - 1) > At(kappa, i)

\* a slice that wrapped and holds a proper part of the full correlation
C18_Witness ==
    /\ pc = "L69"
    /\ Len(x) >= 2
    /\ acf_range >= Len(x)
    /\ Len(acf) >= 2
    /\ Len(acf) < 2 * Len(x) - 1

\* ---------------------------------------------------------------- C19
\* C19: in a valid call (1 <= acf_range < N) plt.axis is given the x-range
\* [-acf_range, acf_range] and the y-range [0, 1.1*max(acf)], max(acf) being
\* the zero-lag value and >= 0: every lag of kappa is inside the x-range and
\* no value exceeds the upper y-limit, but every negative value is below the
\* lower y-limit 0; for an all-zero sequence both y-limits are 0.
C19_PlotRanges ==
    (pc \in {"L83", "done"} /\ ValidLag) =>
        LET zero == At(acf, acf_range)
        IN  /\ Len(axis) = 4
            /\ RatEq(axis[1], Rat(-acf_range, 1))
            /\ RatEq(axis[2], Rat(acf_range, 1))
            /\ RatEq(axis[3], Rat(0, 1))
            /\ RatEq(axis[4], RatMul(Rat(11, 10), zero))
            /\ RatLeq(Rat(0, 1), zero)
            /\ \A i \in 1 .. Len(acf) : RatLeq(acf[i], zero)
            /\ \A i \in 1 .. Len(kappa) :
                  RatLeq(axis[1], Rat(kappa[i], 1)) /\ RatLeq(Rat(kappa[i], 1), axis[2])
            /\ \A i \in 1 .. Len(acf) :
                  /\ RatLeq(acf[i], axis[4])
                  /\ RatLess(acf[i], Rat(0, 1)) => RatLess(acf[i], axis[3])
            /\ AllZero => (RatEq(axis[3], Rat(0, 1)) /\ RatEq(axis[4], Rat(0, 1)))

\* the axis limits of a valid call whose estimate has a negative value
C19_Witness ==
    /\ pc = "L83"
    /\ ValidLag
    /\ \E i \in 1 .. Len(acf) : RatLess(acf[i], axis[3])
    /\ RatLess(Rat(0, 1), axis[4])

\* ---------------------------------------------------------------- C20
\* C20: every sample x = uniform[0,1) - 1/2 of the audio cell lies in
\* [-1/2, 1/2), so x*32768 lies in [-16384, 16384) and its conversion to a
\* signed 16-bit integer neither overflows nor wraps: the written sample is
\* the truncated value and lies in [-16384, 16383], inside [-32768, 32767].
C20_NoInt16Overflow ==
    (wav # <<>>) =>
        LET xk == AudioSample(noise[1])
            v == Scaled(xk)
        IN  /\ RatLeq(Rat(-1, 2), xk) /\ RatLess(xk, Rat(1, 2))
            /\ RatLeq(Rat(-16384, 1), v) /\ RatLess(v, Rat(16384, 1))
            /\ wav[1] = TruncToZero(v)
            /\ -16384 <= wav[1] /\ wav[1] <= 16383
            /\ -32768 <= wav[1] /\ wav[1] <= 32767

\* a written negative sample whose scaled value had a fraction to drop
C20_Witness ==
    /\ wav # <<>>
    /\ wav[1] < 0
    /\ RatLess(Scaled(AudioSample(noise[1])), Rat(wav[1], 1))

====
